---- MODULE Spec2Model ----
(***************************************************************************)
(* State-machine model of the rid-simulator-app broker connection code.    *)
(*                                                                         *)
(* Two iterations of the connection manager exist in the repository: the   *)
(* MqttManager object (mqtt_manager.rs) and the Tauri commands over        *)
(* process-wide cells (lib.rs).  The variable impl says which of the two   *)
(* a behaviour runs; the shared cells (client, event_loop_handle,          *)
(* connection_status, ...) have the same shape in both.                    *)
(*                                                                         *)
(* Every process (foreground call or polling task) is modelled at the      *)
(* granularity of its await points: a pc value names the await the         *)
(* process is suspended at, and one action runs the code from that await   *)
(* to the next one.                                                        *)
(***************************************************************************)
EXTENDS Integers, Sequences, FiniteSets, TLC

\* ------------------------------------------------------------------ bounds
MaxTasks == 2       \* client/event-loop pairs created by connect calls
MaxErrRun == 7      \* consecutive poll errors of one task (backoff scenario)
MaxErrBurst == 1    \* consecutive poll errors of one task (other scenarios)
BackoffConns == 1   \* connect calls in the backoff scenario
MaxIfaces == 1      \* radio interfaces that match the allow-list
ShortGap == 25      \* a gap between two arrivals below the rate limit, in ms
MaxClock == 75      \* last arrival instant, in milliseconds
MaxIdLen == 24      \* longest identifier handed to the codec, in bytes
MaxBufLen == 91     \* longest buffer handed to from_bytes, in bytes
MaxHandled == 6     \* parsed messages handed to the frame builder

\* ------------------------------------------------------- program constants
MAX_RETRIES == 5
LONG_WAIT_SECS == 30
RECONNECT_SECS == 5
RATE_LIMIT_INTERVAL == 50

\* ----------------------------------------------------------------- options
None == <<>>
Some(x) == <<x>>
IsSome(o) == o # <<>>
Unwrap(o) == o[1]

Callers == {"a", "b"}
Tasks == 1..MaxTasks
PayloadKinds == {"valid", "longid", "badjson", "badutf8"}

VARIABLES
    impl,                \* "manager" (mqtt_manager.rs) or "lib" (lib.rs)
    wifi_devices,        \* number of interfaces discovery will find
    app_handle,          \* BOOLEAN: the UI handle is stored
    rid_simulator,       \* BOOLEAN: the simulator is initialised and stored
    client,              \* Option: id of the stored client
    event_loop_handle,   \* Option: id of the task whose JoinHandle is stored
    connection_status,   \* BOOLEAN: the connected flag
    client_lock,         \* Option: caller holding the client mutex
    sim_lock,            \* Option: task holding the simulator mutexes
    callers,             \* foreground calls: pc, op, conn
    tasks,               \* polling tasks: pc, retry_count, msg, and what the
                         \* task put out: sleeps (the delays slept since its
                         \* start or last incoming packet) and events (the
                         \* status events of the current loop iteration)
    next_conn,           \* id of the next client/event-loop pair
    clock,               \* current instant, in milliseconds
    frames,              \* arrival instants of the transmit attempts, in order
    accepted,            \* arrival instants that passed the rate-limit gate
    mqtt_client_set,     \* BOOLEAN: the MQTT_CLIENT cell is initialised
    last_processed_time, \* Option: the rate limiter's timestamp (lib.rs)
    RID_COUNTER,         \* u8: the packet counter (packet_message.rs)
    SEQ_COUNTER,         \* u16: the beacon sequence counter (rid_simulator.rs)
    beacon_seq,          \* Option: sequence_number of the last beacon built
    codec_op,            \* the codec or builder function applied last
    codec_arg,           \* Option: the input it was applied to
    codec_out            \* Option: what it returned

vars == <<impl, wifi_devices, app_handle, rid_simulator, client,
          event_loop_handle, connection_status, client_lock, sim_lock,
          callers, tasks, next_conn, clock, frames, accepted,
          mqtt_client_set, last_processed_time, RID_COUNTER, SEQ_COUNTER,
          beacon_seq, codec_op, codec_arg, codec_out>>

\* The process-wide counters and the record of the last codec call.
counters == <<RID_COUNTER, SEQ_COUNTER, beacon_seq>>
codec_call == <<codec_op, codec_arg, codec_out>>
codec == <<counters, codec_call>>

IdleCaller == [pc |-> "idle", op |-> "none", conn |-> 0]
NoTask == [pc |-> "none", retry_count |-> 0, sleeps |-> <<>>,
           msg |-> None, events |-> <<>>]

\* Everything but the argument of the next call of the codec.
InitProcess ==
    /\ impl \in {"manager", "lib"}
    /\ wifi_devices \in 0..MaxIfaces
    /\ app_handle = FALSE
    /\ rid_simulator = FALSE
    /\ client = None
    /\ event_loop_handle = None
    /\ connection_status = FALSE
    /\ client_lock = None
    /\ sim_lock = None
    /\ callers = [c \in Callers |-> IdleCaller]
    /\ tasks = [t \in Tasks |-> NoTask]
    /\ next_conn = 1
    /\ clock = 0
    /\ frames = <<>>
    /\ accepted = <<>>
    /\ mqtt_client_set = FALSE
    /\ last_processed_time = None
    /\ RID_COUNTER = 1
    /\ SEQ_COUNTER = 0
    /\ beacon_seq = None
    /\ codec_op = "none"
    /\ codec_out = None

Init == InitProcess /\ codec_arg = None

\* A task that has ended: it returned, was cancelled, or panicked.
Ended == {"done", "aborted", "panicked"}

Alive(t) == tasks[t].pc \notin {"none"} \cup Ended

\* Mutant: the handle is dropped without abort(), which detaches the task.
AbortTaskDetached(ts, h) == ts

\* JoinHandle::abort: the task is cancelled at the await it is suspended at
\* and everything it owns, its lock guards included, is dropped.  The record
\* of a cancelled task keeps the message it was handling, None if it had none.
AbortTask(ts, h) ==
    IF IsSome(h) /\ ts[Unwrap(h)].pc \notin {"none"} \cup Ended
    THEN [ts EXCEPT ![Unwrap(h)] =
             [NoTask EXCEPT !.pc = "aborted", !.msg = ts[Unwrap(h)].msg]]
    ELSE ts

ReleaseAborted(l, h) == IF IsSome(h) /\ l = h THEN None ELSE l

\* Mutant: discovery finding nothing is not checked.
StartSimulatorUnchecked(devs) == "ok"

\* RidSimulator::start_simulator panics when discovery found no interface.
StartSimulator(devs) == IF devs = 0 THEN "panic" ELSE "ok"

RECURSIVE Pow2(_)
Pow2(n) == IF n = 0 THEN 1 ELSE 2 * Pow2(n - 1)

\* Connect calls that have not created their client/event-loop pair yet.
PendingConnects ==
    Cardinality({c \in Callers : callers[c].pc \in {"c_app", "c_sim", "c_client"}})

SetCaller(c, pc) == callers' = [callers EXCEPT ![c].pc = pc]

\* ===================================================== MqttManager::connect
\* The foreground call starts; the first await is the app_handle lock.
ConnectCall(c, maxConns) ==
    /\ impl = "manager"
    /\ callers[c].pc = "idle"
    /\ next_conn + PendingConnects <= maxConns
    /\ callers' = [callers EXCEPT ![c] = [pc |-> "c_app", op |-> "connect", conn |-> 0]]
    /\ UNCHANGED <<impl, wifi_devices, app_handle, rid_simulator, client,
                   event_loop_handle, connection_status, client_lock, sim_lock,
                   tasks, next_conn, clock, frames, accepted, mqtt_client_set,
                   last_processed_time>>
    /\ UNCHANGED codec

\* Store the app handle if unset; next await: the rid_simulator lock.
ConnectAppHandle(c) ==
    /\ callers[c].pc = "c_app"
    /\ app_handle' = TRUE
    /\ SetCaller(c, "c_sim")
    /\ UNCHANGED <<impl, wifi_devices, rid_simulator, client,
                   event_loop_handle, connection_status, client_lock, sim_lock,
                   tasks, next_conn, clock, frames, accepted, mqtt_client_set,
                   last_processed_time>>
    /\ UNCHANGED codec

\* Initialise the simulator if absent (start_simulator may panic, which
\* unwinds the call); next await: the client lock.
ConnectInitSim(c) ==
    /\ callers[c].pc = "c_sim"
    /\ sim_lock = None
    /\ IF rid_simulator
       THEN /\ SetCaller(c, "c_client")
            /\ UNCHANGED rid_simulator
       ELSE IF StartSimulator(wifi_devices) = "panic"
            THEN /\ SetCaller(c, "ret_panic")
                 /\ UNCHANGED rid_simulator
            ELSE /\ rid_simulator' = TRUE
                 /\ SetCaller(c, "c_client")
    /\ UNCHANGED <<impl, wifi_devices, app_handle, client,
                   event_loop_handle, connection_status, client_lock, sim_lock,
                   tasks, next_conn, clock, frames, accepted, mqtt_client_set,
                   last_processed_time>>
    /\ UNCHANGED codec

\* AsyncClient::new creates the pair (client, eventloop) number next_conn;
\* the client is stored over whatever was stored before.
ConnectStoreClient(c) ==
    /\ callers[c].pc = "c_client"
    /\ client_lock = None
    /\ client' = Some(next_conn)
    /\ next_conn' = next_conn + 1
    /\ callers' = [callers EXCEPT ![c].pc = "c_status", ![c].conn = next_conn]
    /\ UNCHANGED <<impl, wifi_devices, app_handle, rid_simulator,
                   event_loop_handle, connection_status, client_lock, sim_lock,
                   tasks, clock, frames, accepted, mqtt_client_set,
                   last_processed_time>>
    /\ UNCHANGED codec

\* Set the connected flag, then start_event_loop spawns the polling task,
\* which starts suspended in its first poll; next await: the handle lock.
ConnectSetStatusAndSpawn(c) ==
    /\ callers[c].pc = "c_status"
    /\ connection_status' = TRUE
    /\ tasks' = [tasks EXCEPT ![callers[c].conn].pc = "poll"]
    /\ SetCaller(c, "c_handle")
    /\ UNCHANGED <<impl, wifi_devices, app_handle, rid_simulator, client,
                   event_loop_handle, client_lock, sim_lock,
                   next_conn, clock, frames, accepted, mqtt_client_set,
                   last_processed_time>>
    /\ UNCHANGED codec

\* Store the JoinHandle; a handle stored before is dropped, which detaches
\* its task without stopping it.  Next await: the 500 ms settle sleep and
\* the subscribe request.
ConnectStoreHandle(c) ==
    /\ callers[c].pc = "c_handle"
    /\ event_loop_handle' = Some(callers[c].conn)
    /\ SetCaller(c, "c_sub")
    /\ UNCHANGED <<impl, wifi_devices, app_handle, rid_simulator, client,
                   connection_status, client_lock, sim_lock,
                   tasks, next_conn, clock, frames, accepted, mqtt_client_set,
                   last_processed_time>>
    /\ UNCHANGED codec

\* Mutant: the failure is returned without the rollback.
OnSubscribeErrorReturn == "return"

\* What connect does when subscribe fails: "rollback" runs disconnect.
OnSubscribeError == "rollback"

\* The subscribe request completes: Ok returns success, Err runs
\* self.disconnect() and then returns the failure.
ConnectSubscribe(c) ==
    /\ callers[c].pc = "c_sub"
    /\ \E ok \in BOOLEAN :
          IF ok THEN SetCaller(c, "ret_ok")
          ELSE IF OnSubscribeError = "rollback" THEN SetCaller(c, "d_status")
          ELSE SetCaller(c, "ret_err")
    /\ UNCHANGED <<impl, wifi_devices, app_handle, rid_simulator, client,
                   event_loop_handle, connection_status, client_lock, sim_lock,
                   tasks, next_conn, clock, frames, accepted, mqtt_client_set,
                   last_processed_time>>
    /\ UNCHANGED codec

\* ================================================== MqttManager::disconnect
DisconnectCall(c) ==
    /\ callers[c].pc = "idle"
    /\ callers' = [callers EXCEPT ![c] = [pc |-> "d_status", op |-> "disconnect", conn |-> 0]]
    /\ UNCHANGED <<impl, wifi_devices, app_handle, rid_simulator, client,
                   event_loop_handle, connection_status, client_lock, sim_lock,
                   tasks, next_conn, clock, frames, accepted, mqtt_client_set,
                   last_processed_time>>
    /\ UNCHANGED codec

\* Clear the connected flag; next await: the handle lock.
DisconnectClearStatus(c) ==
    /\ callers[c].pc = "d_status"
    /\ connection_status' = FALSE
    /\ SetCaller(c, "d_abort")
    /\ UNCHANGED <<impl, wifi_devices, app_handle, rid_simulator, client,
                   event_loop_handle, client_lock, sim_lock,
                   tasks, next_conn, clock, frames, accepted, mqtt_client_set,
                   last_processed_time>>
    /\ UNCHANGED codec

\* Take the stored handle and abort its task; next await: the client lock.
DisconnectAbort(c) ==
    /\ callers[c].pc = "d_abort"
    /\ tasks' = AbortTask(tasks, event_loop_handle)
    /\ sim_lock' = ReleaseAborted(sim_lock, event_loop_handle)
    /\ event_loop_handle' = None
    /\ SetCaller(c, "d_client")
    /\ UNCHANGED <<impl, wifi_devices, app_handle, rid_simulator, client,
                   connection_status, client_lock,
                   next_conn, clock, frames, accepted, mqtt_client_set,
                   last_processed_time>>
    /\ UNCHANGED codec

\* Mutant: the error of the transport close is propagated.
DisconnectResultPropagates(closeOk) == IF closeOk THEN "ret_ok" ELSE "ret_err"

\* The value disconnect returns: Ok, whatever the transport close returned.
DisconnectResult(closeOk) == "ret_ok"

\* A disconnect that ran as the rollback of connect is followed by the
\* return of the subscribe failure.

ReturnAfterDisconnect(op, closeOk) ==
    IF op = "connect" THEN "ret_err" ELSE DisconnectResult(closeOk)

\* Lock the client and take it.  With a client present the call is then
\* suspended in client.disconnect() with the guard still held; with none it
\* returns.
DisconnectTakeClient(c) ==
    /\ callers[c].pc = "d_client"
    /\ client_lock = None
    /\ IF IsSome(client)
       THEN /\ client' = None
            /\ client_lock' = Some(c)
            /\ SetCaller(c, "d_close")
       ELSE /\ SetCaller(c, ReturnAfterDisconnect(callers[c].op, TRUE))
            /\ UNCHANGED <<client, client_lock>>
    /\ UNCHANGED <<impl, wifi_devices, app_handle, rid_simulator,
                   event_loop_handle, connection_status, sim_lock,
                   tasks, next_conn, clock, frames, accepted, mqtt_client_set,
                   last_processed_time>>
    /\ UNCHANGED codec

\* The transport close completes (its error is ignored), the guard is
\* dropped and the call returns.
DisconnectClose(c) ==
    /\ callers[c].pc = "d_close"
    /\ client_lock' = None
    /\ \E closeOk \in BOOLEAN :
          SetCaller(c, ReturnAfterDisconnect(callers[c].op, closeOk))
    /\ UNCHANGED <<impl, wifi_devices, app_handle, rid_simulator, client,
                   event_loop_handle, connection_status, sim_lock,
                   tasks, next_conn, clock, frames, accepted, mqtt_client_set,
                   last_processed_time>>
    /\ UNCHANGED codec

\* The caller has the result; the call is over.
Return(c) ==
    /\ callers[c].pc \in {"ret_ok", "ret_err", "ret_panic", "ret_true", "ret_false"}
    /\ callers' = [callers EXCEPT ![c] = IdleCaller]
    /\ UNCHANGED <<impl, wifi_devices, app_handle, rid_simulator, client,
                   event_loop_handle, connection_status, client_lock, sim_lock,
                   tasks, next_conn, clock, frames, accepted, mqtt_client_set,
                   last_processed_time>>
    /\ UNCHANGED codec

\* MqttManager::is_connected: lock the flag, read it, return it.
IsConnected(c) ==
    /\ callers[c].pc = "idle"
    /\ callers' = [callers EXCEPT ![c] =
          [pc |-> IF connection_status THEN "ret_true" ELSE "ret_false",
           op |-> "is_connected", conn |-> 0]]
    /\ UNCHANGED <<impl, wifi_devices, app_handle, rid_simulator, client,
                   event_loop_handle, connection_status, client_lock, sim_lock,
                   tasks, next_conn, clock, frames, accepted, mqtt_client_set,
                   last_processed_time>>
    /\ UNCHANGED codec

\* ======================================= MqttManager::start_event_loop task
\* What the polling task never writes.
foreground == <<impl, wifi_devices, app_handle, rid_simulator, client,
                event_loop_handle, connection_status, client_lock, callers,
                next_conn, mqtt_client_set>>

\* A publish arrives gap ms after the previous one.
Gaps == {ShortGap, RATE_LIMIT_INTERVAL}
NewMsg(now, kind) == Some([now |-> now, kind |-> kind, tx |-> "none"])

\* Mutant: the handler is spawned and the loop goes straight back to poll.
DispatchSpawned(entry) == "poll"

\* handle_publish_packet(..).await inside the loop body: the task is
\* suspended in the handler, at the handler's first await.
Dispatch(entry) == entry

\* poll() returns Ok(Incoming(Publish)): retry_count is reset and the
\* message is dispatched; next await: the first status event.
PollPublish(t) ==
    /\ impl = "manager"
    /\ tasks[t].pc = "poll"
    /\ \E gap \in Gaps, kind \in PayloadKinds :
          /\ clock + gap <= MaxClock
          /\ clock' = clock + gap
          /\ tasks' = [tasks EXCEPT ![t] = [pc |-> Dispatch("h_recv"), retry_count |-> 0,
                          sleeps |-> <<>>, msg |-> NewMsg(clock + gap, kind),
                          events |-> <<>>]]
    /\ UNCHANGED <<foreground, sim_lock, frames, accepted, last_processed_time>>
    /\ UNCHANGED codec

\* poll() returns Ok(Incoming(p)) for a packet that is no Publish.
PollIncomingOther(t) ==
    /\ tasks[t].pc = "poll"
    /\ tasks' = [tasks EXCEPT ![t].retry_count = 0, ![t].sleeps = <<>>]
    /\ UNCHANGED <<foreground, sim_lock, clock, frames, accepted,
                   last_processed_time>>
    /\ UNCHANGED codec

\* poll() returns Ok(Outgoing(p)): logged only, retry_count is left alone.
PollOutgoing(t) ==
    /\ tasks[t].pc = "poll"
    /\ tasks' = tasks
    /\ UNCHANGED <<foreground, sim_lock, clock, frames, accepted,
                   last_processed_time>>
    /\ UNCHANGED codec

\* poll() returns Err; next await: the connection_status lock.
PollError(t, maxRun) ==
    /\ tasks[t].pc = "poll"
    /\ Len(tasks[t].sleeps) < maxRun
    /\ tasks' = [tasks EXCEPT ![t].pc = "chk"]
    /\ UNCHANGED <<foreground, sim_lock, clock, frames, accepted,
                   last_processed_time>>
    /\ UNCHANGED codec

\* Mutant: the flag is not consulted.
ExitNever(status) == FALSE

\* The decision taken under the connection_status lock after a poll error.
ExitOnError(status) == ~status

\* Read the flag under its lock: break out of the loop, or go on to report
\* the error (next await: the app_handle lock of send_log_to_frontend).
CheckStatus(t) ==
    /\ tasks[t].pc = "chk"
    /\ tasks' = [tasks EXCEPT ![t] =
                    IF ExitOnError(connection_status)
                    THEN [NoTask EXCEPT !.pc = "done"]
                    ELSE [@ EXCEPT !.pc = "report"]]
    /\ UNCHANGED <<foreground, sim_lock, clock, frames, accepted,
                   last_processed_time>>
    /\ UNCHANGED codec

\* Mutant: the delay computed from the counter after its increment.
BackoffSecsAfterIncrement(n) ==
    IF n < MAX_RETRIES THEN Pow2(n + 1) ELSE LONG_WAIT_SECS

\* The delay chosen for a poll error when the counter is n.
BackoffSecs(n) == IF n < MAX_RETRIES THEN Pow2(n) ELSE LONG_WAIT_SECS

\* Mutant: no sleep resets the counter.
RetryAfterSleepKeeps(longWait, n) == n

\* The counter once the sleep of a poll error is over.
RetryAfterSleep(longWait, n) == IF longWait THEN 0 ELSE n

\* Emit the error and the retry notice, then start the backoff sleep.
BackoffReport(t) ==
    /\ impl = "manager"
    /\ tasks[t].pc = "report"
    /\ LET n == tasks[t].retry_count IN
       tasks' = [tasks EXCEPT
          ![t].events = <<"mqtt_error",
                          IF n < MAX_RETRIES THEN "retry_in" ELSE "max_retries">>,
          ![t].sleeps = Append(@, BackoffSecs(n)),
          ![t].retry_count = IF n < MAX_RETRIES THEN n + 1 ELSE n,
          ![t].pc = IF n < MAX_RETRIES THEN "sleep" ELSE "long_sleep"]
    /\ UNCHANGED <<foreground, sim_lock, clock, frames, accepted,
                   last_processed_time>>
    /\ UNCHANGED codec

\* The sleep is over; `continue` starts the next poll.
Wake(t) ==
    /\ tasks[t].pc \in {"sleep", "long_sleep"}
    /\ tasks' = [tasks EXCEPT
          ![t].retry_count = RetryAfterSleep(tasks[t].pc = "long_sleep", @),
          ![t].events = <<>>,
          ![t].pc = "poll"]
    /\ UNCHANGED <<foreground, sim_lock, clock, frames, accepted,
                   last_processed_time>>
    /\ UNCHANGED codec

\* ===================================== MqttManager::handle_publish_packet
\* serde_json::from_slice::<PacketMessage>(&payload)
\* "longid" is a well-formed PacketMessage whose uas_id is longer than the
\* 23 bytes BaseMessage::encode has room for.
ParsesAsPacket(kind) == kind \in {"valid", "longid"}
\* String::from_utf8(payload.to_vec())
IsUtf8(kind) == kind # "badutf8"

\* Emit (topic, size) and parse the payload.  Ok: emit parse success; next
\* await: the rid_simulator lock.  Err: emit the failure if the payload is
\* text, and the handler returns.
HandleReceive(t) ==
    /\ tasks[t].pc = "h_recv"
    /\ LET m == Unwrap(tasks[t].msg) IN
       IF ParsesAsPacket(m.kind)
       THEN tasks' = [tasks EXCEPT ![t].events = <<"received", "parse_ok">>,
                                   ![t].pc = "h_sim"]
       ELSE tasks' = [tasks EXCEPT
               ![t].events = IF IsUtf8(m.kind) THEN <<"received", "parse_fail">>
                             ELSE <<"received">>,
               ![t].pc = "h_end"]
    /\ UNCHANGED <<foreground, sim_lock, clock, frames, accepted,
                   last_processed_time>>
    /\ UNCHANGED codec

\* RID_COUNTER.fetch_add(0x01) on an AtomicU8: the value after the call.
RidCounterAfter(n) == (n + 1) % 256

\* Mutant: the sequence counter steps by one.
SeqCounterAfterByOne(n) == (n + 1) % 65536

\* SEQ_COUNTER.fetch_add(0x10) on an AtomicU16: the value after the call.
SeqCounterAfter(n) == (n + 16) % 65536

\* BaseMessage::encode pads with vec![0u8; 23 - id_len]: the subtraction
\* underflows, and the call panics, when uas_id is longer than 23 bytes.
EncodePanics(kind) == kind = "longid"

\* message.encode() up to the panic: the packet counter has been drawn, and
\* the unwinding drops the task with its guards.
EncodePanic(t) ==
    /\ RID_COUNTER' = RidCounterAfter(RID_COUNTER)
    /\ tasks' = [tasks EXCEPT ![t] = [NoTask EXCEPT !.pc = "panicked"]]
    /\ UNCHANGED <<SEQ_COUNTER, beacon_seq, frames, sim_lock>>

\* message.encode() followed by build_and_send_rid: encode draws the packet
\* counter, build_rid_beacon draws the sequence number of the beacon.
EncodeAndBuild ==
    /\ RID_COUNTER' = RidCounterAfter(RID_COUNTER)
    /\ beacon_seq' = Some(SEQ_COUNTER)
    /\ SEQ_COUNTER' = SeqCounterAfter(SEQ_COUNTER)

\* Lock rid_simulator and the simulator inside it, derive the SSID, encode,
\* build and send (one synchronous attempt); next await: the outcome event,
\* with both guards still held.
HandleSend(t) ==
    /\ tasks[t].pc = "h_sim"
    /\ sim_lock = None
    /\ LET m == Unwrap(tasks[t].msg) IN
       IF rid_simulator
       THEN IF EncodePanics(m.kind)
            THEN EncodePanic(t)
            ELSE \E ok \in BOOLEAN :
                   /\ sim_lock' = Some(t)
                   /\ frames' = Append(frames, m.now)
                   /\ EncodeAndBuild
                   /\ tasks' = [tasks EXCEPT ![t].pc = "h_report",
                                   ![t].msg = Some([m EXCEPT !.tx = IF ok THEN "ok" ELSE "fail"])]
       ELSE /\ sim_lock' = Some(t)
            /\ tasks' = [tasks EXCEPT ![t].pc = "h_report",
                              ![t].msg = Some([m EXCEPT !.tx = "nosim"])]
            /\ UNCHANGED <<frames, counters>>
    /\ UNCHANGED <<foreground, clock, accepted, last_processed_time, codec_call>>

TxEvent(tx) == IF tx = "ok" THEN "tx_ok" ELSE IF tx = "fail" THEN "tx_fail"
               ELSE "no_simulator"

\* Emit the transmit outcome, drop the guards; the handler returns.
HandleReport(t) ==
    /\ tasks[t].pc = "h_report"
    /\ sim_lock' = None
    /\ tasks' = [tasks EXCEPT
          ![t].events = Append(@, TxEvent(Unwrap(tasks[t].msg).tx)),
          ![t].pc = "h_end"]
    /\ UNCHANGED <<foreground, clock, frames, accepted, last_processed_time>>
    /\ UNCHANGED codec

\* The handler has returned: the loop body is over and the task polls again.
NextPoll(t) ==
    /\ tasks[t].pc = "h_end"
    /\ tasks' = [tasks EXCEPT ![t].events = <<>>, ![t].msg = None, ![t].pc = "poll"]
    /\ UNCHANGED <<foreground, sim_lock, clock, frames, accepted,
                   last_processed_time>>
    /\ UNCHANGED codec

ManagerForeground(cs, maxConns) ==
    \/ \E c \in cs : ConnectCall(c, maxConns)
    \/ \E c \in cs : ConnectAppHandle(c)
    \/ \E c \in cs : ConnectInitSim(c)
    \/ \E c \in cs : ConnectStoreClient(c)
    \/ \E c \in cs : ConnectSetStatusAndSpawn(c)
    \/ \E c \in cs : ConnectStoreHandle(c)
    \/ \E c \in cs : ConnectSubscribe(c)
    \/ \E c \in cs : DisconnectCall(c)
    \/ \E c \in cs : DisconnectClearStatus(c)
    \/ \E c \in cs : DisconnectAbort(c)
    \/ \E c \in cs : DisconnectTakeClient(c)
    \/ \E c \in cs : DisconnectClose(c)
    \/ \E c \in cs : IsConnected(c)
    \/ \E c \in cs : Return(c)

ManagerTask(maxRun) ==
    \/ \E t \in Tasks : PollIncomingOther(t)
    \/ \E t \in Tasks : PollOutgoing(t)
    \/ \E t \in Tasks : PollError(t, maxRun)
    \/ \E t \in Tasks : CheckStatus(t)
    \/ \E t \in Tasks : BackoffReport(t)
    \/ \E t \in Tasks : Wake(t)

ManagerHandler ==
    \/ \E t \in Tasks : PollPublish(t)
    \/ \E t \in Tasks : HandleReceive(t)
    \/ \E t \in Tasks : HandleSend(t)
    \/ \E t \in Tasks : HandleReport(t)
    \/ \E t \in Tasks : NextPoll(t)

\* ============================================ lib.rs: connect_to_mqtt_server
\* The synchronous start of the command: store the app handle, initialise
\* the simulator (start_simulator may panic), create the client/event-loop
\* pair and look at the MQTT_CLIENT cell; next await: the client lock, or
\* none when the cell is still unset.
LibConnectCall(c, maxConns) ==
    /\ impl = "lib"
    /\ callers[c].pc = "idle"
    /\ next_conn <= maxConns
    /\ app_handle' = TRUE
    /\ IF ~rid_simulator /\ StartSimulator(wifi_devices) = "panic"
       THEN /\ callers' = [callers EXCEPT ![c] =
                   [pc |-> "ret_panic", op |-> "connect", conn |-> 0]]
            /\ UNCHANGED <<rid_simulator, next_conn>>
       ELSE /\ rid_simulator' = TRUE
            /\ next_conn' = next_conn + 1
            /\ callers' = [callers EXCEPT ![c] =
                   [pc |-> IF mqtt_client_set THEN "lc_client" ELSE "lc_first",
                    op |-> "connect", conn |-> next_conn]]
    /\ UNCHANGED <<impl, wifi_devices, client, event_loop_handle,
                   connection_status, client_lock, sim_lock, tasks, clock,
                   frames, accepted, mqtt_client_set, last_processed_time>>
    /\ UNCHANGED codec

\* First initialisation: MQTT_CLIENT.set(client_arc); it fails, and the
\* command returns the error, if the cell was set in the meantime.
LibConnectFirstStore(c) ==
    /\ callers[c].pc = "lc_first"
    /\ IF mqtt_client_set
       THEN /\ SetCaller(c, "ret_err")
            /\ UNCHANGED <<client, mqtt_client_set>>
       ELSE /\ mqtt_client_set' = TRUE
            /\ client' = Some(callers[c].conn)
            /\ SetCaller(c, "lc_status")
    /\ UNCHANGED <<impl, wifi_devices, app_handle, rid_simulator,
                   event_loop_handle, connection_status, client_lock, sim_lock,
                   tasks, next_conn, clock, frames, accepted,
                   last_processed_time>>
    /\ UNCHANGED codec

\* The cell exists: lock it and store the new client over the old one.
LibConnectStoreClient(c) ==
    /\ callers[c].pc = "lc_client"
    /\ client_lock = None
    /\ client' = Some(callers[c].conn)
    /\ SetCaller(c, "lc_status")
    /\ UNCHANGED <<impl, wifi_devices, app_handle, rid_simulator,
                   event_loop_handle, connection_status, client_lock, sim_lock,
                   tasks, next_conn, clock, frames, accepted, mqtt_client_set,
                   last_processed_time>>
    /\ UNCHANGED codec

\* Set the connected flag and spawn the polling task; next await: the
\* handle lock.
LibConnectSetStatusAndSpawn(c) ==
    /\ callers[c].pc = "lc_status"
    /\ connection_status' = TRUE
    /\ tasks' = [tasks EXCEPT ![callers[c].conn].pc = "poll"]
    /\ SetCaller(c, "lc_handle")
    /\ UNCHANGED <<impl, wifi_devices, app_handle, rid_simulator, client,
                   event_loop_handle, client_lock, sim_lock, next_conn, clock,
                   frames, accepted, mqtt_client_set, last_processed_time>>
    /\ UNCHANGED codec

\* Store the JoinHandle (dropping, so detaching, the one stored before);
\* next await: the 500 ms settle sleep.
LibConnectStoreHandle(c) ==
    /\ callers[c].pc = "lc_handle"
    /\ event_loop_handle' = Some(callers[c].conn)
    /\ SetCaller(c, "lc_settle")
    /\ UNCHANGED <<impl, wifi_devices, app_handle, rid_simulator, client,
                   connection_status, client_lock, sim_lock, tasks, next_conn,
                   clock, frames, accepted, mqtt_client_set,
                   last_processed_time>>
    /\ UNCHANGED codec

\* After the settle sleep: lock the client cell.  With a client stored the
\* command is then suspended in subscribe with the guard held; with none it
\* returns the "not initialised" error.
LibConnectLockClient(c) ==
    /\ callers[c].pc = "lc_settle"
    /\ client_lock = None
    /\ IF IsSome(client)
       THEN /\ client_lock' = Some(c)
            /\ SetCaller(c, "lc_sub")
       ELSE /\ SetCaller(c, "ret_err")
            /\ UNCHANGED client_lock
    /\ UNCHANGED <<impl, wifi_devices, app_handle, rid_simulator, client,
                   event_loop_handle, connection_status, sim_lock, tasks,
                   next_conn, clock, frames, accepted, mqtt_client_set,
                   last_processed_time>>
    /\ UNCHANGED codec

\* What the command does when subscribe fails: it only returns the error.
LibOnSubscribeError == "return"

\* The subscribe request completes; the guard is dropped on return.
LibConnectSubscribe(c) ==
    /\ callers[c].pc = "lc_sub"
    /\ \E ok \in BOOLEAN :
          IF ok THEN /\ SetCaller(c, "ret_ok")
                     /\ client_lock' = None
          ELSE IF LibOnSubscribeError = "rollback"
               THEN /\ SetCaller(c, "d_status")
                    /\ client_lock' = None
               ELSE /\ SetCaller(c, "ret_err")
                    /\ client_lock' = None
    /\ UNCHANGED <<impl, wifi_devices, app_handle, rid_simulator, client,
                   event_loop_handle, connection_status, sim_lock, tasks,
                   next_conn, clock, frames, accepted, mqtt_client_set,
                   last_processed_time>>
    /\ UNCHANGED codec

\* ============================ lib.rs: the polling task of the command
\* Emit the error, then start the fixed reconnect sleep.
LibErrorSleep(t) ==
    /\ impl = "lib"
    /\ tasks[t].pc = "report"
    /\ tasks' = [tasks EXCEPT ![t].events = <<"mqtt_error">>,
                              ![t].sleeps = Append(@, RECONNECT_SECS),
                              ![t].pc = "sleep"]
    /\ UNCHANGED <<foreground, sim_lock, clock, frames, accepted,
                   last_processed_time>>
    /\ UNCHANGED codec

\* ========================================= lib.rs: handle_publish_packet
\* Instant::duration_since saturates to zero for an earlier instant.
DurationSince(now, earlier) == IF now > earlier THEN now - earlier ELSE 0

\* Mutant: a message exactly one interval after the last one is rejected too.
RateLimitedInclusive(now, last) == DurationSince(now, last) <= RATE_LIMIT_INTERVAL

\* Mutant: the check never rejects.
RateLimitedNever(now, last) == FALSE

\* The rate-limit check made under the LAST_PROCESSED_TIME lock.
RateLimited(now, last) == DurationSince(now, last) < RATE_LIMIT_INTERVAL

\* Mutant: the timestamp is not updated.
AcceptedTimeStale(now, last) == last

\* The timestamp an accepted message leaves behind.
AcceptedTime(now, last) == now

\* Mutant: the timestamp starts at the instant of its initialisation.
GetOrInitAtNow(last, now) == IF IsSome(last) THEN last ELSE Some(now)

\* LAST_PROCESSED_TIME.get_or_init(|| Mutex::new(Instant::now() - 50 ms))
GetOrInit(last, now) == IF IsSome(last) THEN last ELSE Some(now - RATE_LIMIT_INTERVAL)

\* poll() returns Ok(Incoming(Publish)): the handler initialises the rate
\* limiter if needed and reads the clock; next await: the timestamp lock.
LibPollPublish(t) ==
    /\ impl = "lib"
    /\ tasks[t].pc = "poll"
    /\ \E gap \in Gaps, kind \in PayloadKinds :
          /\ clock + gap <= MaxClock
          /\ clock' = clock + gap
          /\ last_processed_time' = GetOrInit(last_processed_time, clock + gap)
          /\ tasks' = [tasks EXCEPT ![t] = [pc |-> Dispatch("lh_gate"), retry_count |-> 0,
                          sleeps |-> <<>>, msg |-> NewMsg(clock + gap, kind),
                          events |-> <<>>]]
    /\ UNCHANGED <<foreground, sim_lock, frames, accepted>>
    /\ UNCHANGED codec

\* Under the timestamp lock: reject (log and return), or store now as the
\* new timestamp and drop the lock; then emit (topic, size) and parse the
\* payload.  Ok: next await: the simulator lock.  Err: emit the failure if
\* the payload is text, and the handler returns.
LibGate(t) ==
    /\ tasks[t].pc = "lh_gate"
    /\ LET m == Unwrap(tasks[t].msg) IN
       IF RateLimited(m.now, Unwrap(last_processed_time))
       THEN /\ tasks' = [tasks EXCEPT ![t].events = <<"rejected">>,
                                      ![t].pc = "h_end"]
            /\ UNCHANGED <<last_processed_time, accepted>>
       ELSE /\ last_processed_time' = Some(AcceptedTime(m.now, Unwrap(last_processed_time)))
            /\ accepted' = Append(accepted, m.now)
            /\ IF ParsesAsPacket(m.kind)
               THEN tasks' = [tasks EXCEPT ![t].events = <<"received", "parse_ok">>,
                                           ![t].pc = "lh_sim"]
               ELSE tasks' = [tasks EXCEPT
                       ![t].events = IF IsUtf8(m.kind)
                                     THEN <<"received", "parse_fail">>
                                     ELSE <<"received">>,
                       ![t].pc = "h_end"]
    /\ UNCHANGED <<foreground, sim_lock, clock, frames>>
    /\ UNCHANGED codec

\* Lock the simulator, derive the SSID, encode, build and send (one
\* synchronous attempt), emit the outcome; the guard is dropped on return.
LibSend(t) ==
    /\ tasks[t].pc = "lh_sim"
    /\ sim_lock = None
    /\ LET m == Unwrap(tasks[t].msg) IN
       IF EncodePanics(m.kind)
       THEN EncodePanic(t)
       ELSE \E ok \in BOOLEAN :
              /\ frames' = Append(frames, m.now)
              /\ EncodeAndBuild
              /\ tasks' = [tasks EXCEPT
                    ![t].msg = Some([m EXCEPT !.tx = IF ok THEN "ok" ELSE "fail"]),
                    ![t].events = Append(@, TxEvent(IF ok THEN "ok" ELSE "fail")),
                    ![t].pc = "h_end"]
              /\ UNCHANGED sim_lock
    /\ UNCHANGED <<foreground, clock, accepted, last_processed_time,
                   codec_call>>

LibForeground(cs, maxConns) ==
    \/ \E c \in cs : LibConnectCall(c, maxConns)
    \/ \E c \in cs : LibConnectFirstStore(c)
    \/ \E c \in cs : LibConnectStoreClient(c)
    \/ \E c \in cs : LibConnectSetStatusAndSpawn(c)
    \/ \E c \in cs : LibConnectStoreHandle(c)
    \/ \E c \in cs : LibConnectLockClient(c)
    \/ \E c \in cs : LibConnectSubscribe(c)
    \/ \E c \in cs : DisconnectCall(c)
    \/ \E c \in cs : DisconnectClearStatus(c)
    \/ \E c \in cs : DisconnectAbort(c)
    \/ \E c \in cs : DisconnectTakeClient(c)
    \/ \E c \in cs : DisconnectClose(c)
    \/ \E c \in cs : IsConnected(c)
    \/ \E c \in cs : Return(c)

LibTask(maxRun) ==
    \/ \E t \in Tasks : PollIncomingOther(t)
    \/ \E t \in Tasks : PollOutgoing(t)
    \/ \E t \in Tasks : PollError(t, maxRun)
    \/ \E t \in Tasks : CheckStatus(t)
    \/ \E t \in Tasks : LibErrorSleep(t)
    \/ \E t \in Tasks : Wake(t)

LibHandler ==
    \/ \E t \in Tasks : LibPollPublish(t)
    \/ \E t \in Tasks : LibGate(t)
    \/ \E t \in Tasks : LibSend(t)
    \/ \E t \in Tasks : NextPoll(t)

InitLib == Init /\ impl = "lib"

\* The lib.rs commands with inbound messages, calls made one after the other.
NextLib == LibForeground({"a"}, MaxTasks) \/ LibTask(MaxErrBurst) \/ LibHandler
SpecLib == InitLib /\ [][NextLib]_vars

InitManager == Init /\ impl = "manager"

\* MqttManager under concurrent foreground calls and poll errors.
Next == ManagerForeground(Callers, MaxTasks) \/ ManagerTask(MaxErrBurst)
Spec == InitManager /\ [][Next]_vars

\* MqttManager with one connection and long runs of poll errors.
NextBackoff == ManagerForeground({"a"}, BackoffConns) \/ ManagerTask(MaxErrRun)
SpecBackoff == InitManager /\ [][NextBackoff]_vars

\* The tokio runtime resumes a task whose await is ready: the lock of the
\* flag is granted, the status events are emitted, and every sleep ends.
FairBackoff ==
    \A t \in Tasks :
        WF_vars(CheckStatus(t)) /\ WF_vars(BackoffReport(t)) /\ WF_vars(Wake(t))
SpecBackoffFair == SpecBackoff /\ FairBackoff

\* MqttManager with inbound messages, its calls made one after the other.
NextMessages ==
    ManagerForeground({"a"}, MaxTasks) \/ ManagerTask(MaxErrBurst) \/ ManagerHandler
SpecMessages == InitManager /\ [][NextMessages]_vars

\* Either iteration of the manager, with inbound messages.
NextHandlers == NextMessages \/ NextLib
SpecHandlers == Init /\ [][NextHandlers]_vars

\* ====================================================================
\* The Remote-ID codec (message/*.rs): bytes are naturals in 0..255, a
\* buffer or an encoded message is a sequence of bytes, a String is the
\* sequence of its UTF-8 bytes.
\* ====================================================================
RECURSIVE BitAnd(_, _)
BitAnd(a, b) ==
    IF a = 0 \/ b = 0 THEN 0
    ELSE 2 * BitAnd(a \div 2, b \div 2) + (IF a % 2 = 1 /\ b % 2 = 1 THEN 1 ELSE 0)

RECURSIVE BitOr(_, _)
BitOr(a, b) ==
    IF a = 0 THEN b
    ELSE IF b = 0 THEN a
    ELSE 2 * BitOr(a \div 2, b \div 2) + (IF a % 2 = 1 \/ b % 2 = 1 THEN 1 ELSE 0)

\* x << k and x >> k on a u8: the bits shifted out are lost.
Shl8(x, k) == (x * Pow2(k)) % 256
Shr(x, k) == x \div Pow2(k)

\* to_le_bytes of an n-byte integer (two's complement for a negative one).
LeBytes(x, n) == [i \in 1..n |-> (x \div Pow2(8 * (i - 1))) % 256]

\* from_le_bytes of an unsigned integer.
RECURSIVE FromLe(_)
FromLe(bs) == IF bs = <<>> THEN 0 ELSE Head(bs) + 256 * FromLe(Tail(bs))

\* i32::from_le_bytes
I32FromLe(bs) ==
    FromLe(SubSeq(bs, 1, 3)) + Pow2(24) * (IF bs[4] >= 128 THEN bs[4] - 256 ELSE bs[4])

Zeros(n) == [i \in 1..n |-> 0]

\* &data[a..b] with 0-based a and exclusive b (the caller checks b <= len).
Slice(data, a, b) == SubSeq(data, a + 1, b)

Ok(bytes) == [tag |-> "ok", bytes |-> bytes]
Decoded(m) == [tag |-> "ok", msg |-> m]
Panic == [tag |-> "panic"]
InsufficientLength(expected, actual) ==
    [tag |-> "err", err |-> "InsufficientLength", expected |-> expected, actual |-> actual]
InvalidUtf8 == [tag |-> "err", err |-> "InvalidUtf8"]
UnknownMessageType(t) == [tag |-> "err", err |-> "UnknownMessageType", type |-> t]

\* str::from_utf8 accepts exactly the well-formed UTF-8 byte sequences.
IsCont(bs, i, lo, hi) == i <= Len(bs) /\ bs[i] >= lo /\ bs[i] <= hi

RECURSIVE Utf8From(_, _)
Utf8From(bs, i) ==
    IF i > Len(bs) THEN TRUE
    ELSE LET b == bs[i] IN
         IF b < 128 THEN Utf8From(bs, i + 1)
         ELSE IF b >= 194 /\ b <= 223
              THEN IsCont(bs, i + 1, 128, 191) /\ Utf8From(bs, i + 2)
         ELSE IF b >= 224 /\ b <= 239
              THEN /\ IsCont(bs, i + 1, IF b = 224 THEN 160 ELSE 128,
                                        IF b = 237 THEN 159 ELSE 191)
                   /\ IsCont(bs, i + 2, 128, 191)
                   /\ Utf8From(bs, i + 3)
         ELSE IF b >= 240 /\ b <= 244
              THEN /\ IsCont(bs, i + 1, IF b = 240 THEN 144 ELSE 128,
                                        IF b = 244 THEN 143 ELSE 191)
                   /\ IsCont(bs, i + 2, 128, 191)
                   /\ IsCont(bs, i + 3, 128, 191)
                   /\ Utf8From(bs, i + 4)
         ELSE FALSE

IsValidUtf8(bs) == Utf8From(bs, 1)

\* s.trim_end_matches('\0'), then s.trim_end(): the white space of the
\* one-byte characters (the model's strings hold no other white space).
RECURSIVE TrimEndNul(_)
TrimEndNul(bs) ==
    IF bs # <<>> /\ bs[Len(bs)] = 0 THEN TrimEndNul(SubSeq(bs, 1, Len(bs) - 1)) ELSE bs

IsWhiteSpace(b) == b \in {9, 10, 11, 12, 13, 32}

RECURSIVE TrimEnd(_)
TrimEnd(bs) ==
    IF bs # <<>> /\ IsWhiteSpace(bs[Len(bs)])
    THEN TrimEnd(SubSeq(bs, 1, Len(bs) - 1)) ELSE bs

\* MessageType as u8
BaseMessageType == 0
PositionVectorMessageType == 1
SystemMessageType == 4

\* (message_type << 4) | 0x01: the tag byte in front of an encoded message.
MessageProtocol(message_type) == BitOr(Shl8(message_type, 4), 1)

\* ------------------------------------------------------------ BaseMessage
BASE_EXPECTED_LENGTH == 24

\* BaseMessage::from_bytes
BaseFromBytes(data) ==
    IF Len(data) < BASE_EXPECTED_LENGTH
    THEN InsufficientLength(BASE_EXPECTED_LENGTH, Len(data))
    ELSE LET byte0 == data[1]
             uas_id_bytes == Slice(data, 1, 21)
         IN IF ~IsValidUtf8(uas_id_bytes) THEN InvalidUtf8
            ELSE Decoded([id_type |-> BitAnd(Shr(byte0, 4), 15),
                          ua_type |-> BitAnd(byte0, 15),
                          uas_id |-> TrimEnd(TrimEndNul(uas_id_bytes)),
                          reserved |-> <<0, 0, 0>>])

\* BaseMessage::encode: tag, type byte, the whole identifier, then
\* vec![0u8; 23 - id_len], whose length underflows (the call does not
\* return) for an identifier of more than 23 bytes.
BaseEncode(m) ==
    LET uas_bytes == m.uas_id
        id_len == Len(uas_bytes)
    IN IF id_len > 23 THEN Panic
       ELSE Ok(<<MessageProtocol(BaseMessageType),
                 BitOr(Shl8(m.id_type, 4), BitAnd(m.ua_type, 15))>>
               \o uas_bytes \o Zeros(23 - id_len))

\* ---------------------------------------------------------- SystemMessage
SYSTEM_EXPECTED_LENGTH == 24

\* SystemMessage::from_bytes: the length check, the packed byte, the
\* classification check, then the fields at their offsets; the last one,
\* reserved, is data[24], an index past the end of a 24-byte buffer.
SystemFromBytes(data) ==
    IF Len(data) < SYSTEM_EXPECTED_LENGTH
    THEN InsufficientLength(SYSTEM_EXPECTED_LENGTH, Len(data))
    ELSE LET byte0 == data[1]
             classification_region == BitAnd(Shr(byte0, 2), 7)
         IN IF classification_region = 0 \/ classification_region > 3
            THEN UnknownMessageType(1)
            ELSE IF Len(data) < 25 THEN Panic
            ELSE Decoded([coordinate_system |-> BitAnd(Shr(byte0, 5), 7),
                          reserved_bits |-> BitAnd(Shr(byte0, 3), 3),
                          classification_region |-> classification_region,
                          station_type |-> BitAnd(byte0, 3),
                          latitude |-> I32FromLe(Slice(data, 1, 5)),
                          longitude |-> I32FromLe(Slice(data, 5, 9)),
                          operation_count |-> FromLe(Slice(data, 9, 11)),
                          operation_radius |-> data[12],
                          altitude_upper |-> FromLe(Slice(data, 12, 14)),
                          altitude_lower |-> FromLe(Slice(data, 14, 16)),
                          ua_category |-> data[17],
                          ua_level |-> data[18],
                          station_altitude |-> FromLe(Slice(data, 18, 20)),
                          timestamp |-> FromLe(Slice(data, 20, 24)),
                          reserved |-> data[25]])

\* The timestamp SystemMessage::encode writes: SystemTime::now() in seconds,
\* as u32 (no truncation for a clock value below 2^31).
EncodedTimestamp(m, now) == now

\* SystemMessage::encode, at the clock value now.
SystemEncode(m, now) ==
    LET byte1 == BitOr(BitOr(BitOr(Shl8(BitAnd(m.coordinate_system, 127), 1),
                                   Shl8(BitAnd(m.reserved_bits, 3), 5)),
                             Shl8(BitAnd(m.classification_region, 7), 2)),
                       BitAnd(m.station_type, 3))
        ua_category_level == BitOr(Shl8(m.ua_category, 4), m.ua_level)
    IN Ok(<<MessageProtocol(SystemMessageType), byte1>>
          \o LeBytes(m.latitude, 4) \o LeBytes(m.longitude, 4)
          \o LeBytes(m.operation_count, 2) \o <<m.operation_radius>>
          \o LeBytes(m.altitude_upper, 2) \o LeBytes(m.altitude_lower, 2)
          \o <<ua_category_level>>
          \o LeBytes(m.station_altitude, 2)
          \o LeBytes(EncodedTimestamp(m, now), 4)
          \o <<m.reserved>>)

\* ------------------------------------------------- PositionVectorMessage
\* Every sub-message of a packet takes MESSAGE_SIZE bytes: the tag and a
\* payload of a fixed width.
MESSAGE_SIZE == 25
MESSAGE_QUANTITY == 3

\* PositionVectorMessage::from_bytes: a fixed-length payload, as for the
\* other two kinds; its fields are kept as the payload bytes.
PositionFromBytes(data) ==
    IF Len(data) < MESSAGE_SIZE - 1
    THEN InsufficientLength(MESSAGE_SIZE - 1, Len(data))
    ELSE Decoded([payload |-> SubSeq(data, 1, MESSAGE_SIZE - 1)])

\* PositionVectorMessage::encode: the tag, then the fixed-width payload.
PositionEncode(m) == Ok(<<MessageProtocol(PositionVectorMessageType)>> \o m.payload)

\* ---------------------------------------------------------- PacketMessage
\* x ^ (1 << k)
FlipBit(x, p) == IF (x \div p) % 2 = 1 THEN x - p ELSE x + p

\* One step of CRC-16/XMODEM (polynomial 0x1021, no reflection): shift the
\* register left by one bit and, when the bit shifted out differs from the
\* message bit, xor the polynomial (bits 12, 5 and 0) in.
CrcBit(crc, bit) ==
    LET shifted == (crc * 2) % 65536
    IN IF (crc \div 32768) % 2 # bit
       THEN FlipBit(FlipBit(FlipBit(shifted, 4096), 32), 1)
       ELSE shifted

\* The bits of a byte from the one of weight p down, most significant first.
RECURSIVE CrcBits(_, _, _)
CrcBits(crc, byte, p) ==
    IF crc >= 0 /\ p = 0 THEN crc
    ELSE CrcBits(CrcBit(crc, (byte \div p) % 2), byte, p \div 2)

RECURSIVE CrcFrom(_, _, _)
CrcFrom(crc, bytes, i) ==
    IF crc >= 0 /\ i > Len(bytes) THEN crc
    ELSE CrcFrom(CrcBits(crc, bytes[i], 128), bytes, i + 1)

\* crc16::State::<crc16::XMODEM>::calculate: initial value 0, no final xor.
Crc16Xmodem(bytes) == CrcFrom(0, bytes, 1)

\* Mutant: the checksum is written high byte first.
ChecksumBytesBigEndian(checksum) == <<checksum \div 256, checksum % 256>>

\* checksum.to_le_bytes()
ChecksumBytes(checksum) == LeBytes(checksum, 2)

\* Mutant: the stored field is written.
EncodedCounterStored(m, rid_counter) == m.message_counter

\* The first header byte: the value RID_COUNTER.fetch_add returned.
EncodedCounter(m, rid_counter) == rid_counter

\* PacketMessage::encode, with the value drawn from RID_COUNTER and the
\* clock value now: header, Base, Position, System, checksum, reserved.
PacketEncode(m, rid_counter, now) ==
    LET header == <<EncodedCounter(m, rid_counter), m.protocol_version,
                    m.message_size, m.message_quantity>>
        base == BaseEncode(m.base_message)
        position == PositionEncode(m.position_message)
        system == SystemEncode(m.system_message, now)
    IN IF base.tag = "panic" THEN Panic
       ELSE LET bytes == header \o base.bytes \o position.bytes \o system.bytes
            IN Ok(bytes \o ChecksumBytes(Crc16Xmodem(bytes)) \o m.reserved)

\* PacketMessage::from_bytes: the length check against 16, the header, then
\* the sub-messages and the trailer at fixed offsets; a slice or an index
\* past the end of the buffer panics.
PacketFromBytes(data) ==
    IF Len(data) < 16 THEN InsufficientLength(16, Len(data))
    ELSE IF Len(data) < 29 THEN Panic
    ELSE LET base == BaseFromBytes(Slice(data, 5, 29)) IN
    IF base.tag # "ok" THEN base
    ELSE IF Len(data) < 61 THEN Panic
    ELSE LET system == SystemFromBytes(Slice(data, 29, 61)) IN
    IF system.tag # "ok" THEN system
    ELSE IF Len(data) < 85 THEN Panic
    ELSE LET position == PositionFromBytes(Slice(data, 61, 85)) IN
    IF position.tag # "ok" THEN position
    ELSE IF Len(data) < 90 THEN Panic
    ELSE Decoded([protocol_version |-> data[3],
                  message_counter |-> data[2],
                  message_size |-> data[4],
                  message_quantity |-> data[5],
                  base_message |-> base.msg,
                  system_message |-> system.msg,
                  position_message |-> position.msg,
                  checksum |-> FromLe(Slice(data, 85, 87)),
                  reserved |-> Slice(data, 87, 90)])

\* ------------------------------------------------------ calls of the codec
\* The inputs the calls are made with.
IdChars == {65, 32}
UasIds == {[i \in 1..n |-> ch] : n \in 0..MaxIdLen, ch \in IdChars}

BaseMessages ==
    {[id_type |-> t, ua_type |-> u, uas_id |-> id, reserved |-> <<0, 0, 0>>] :
        t \in {2, 18}, u \in {3, 19}, id \in UasIds}

SystemMessages ==
    {[coordinate_system |-> cs, reserved_bits |-> rb, classification_region |-> cr,
      station_type |-> st, latitude |-> lat, longitude |-> 5,
      operation_count |-> 258, operation_radius |-> 9, altitude_upper |-> 300,
      altitude_lower |-> 10, ua_category |-> 1, ua_level |-> 2,
      station_altitude |-> 77, timestamp |-> ts, reserved |-> 0] :
        cs \in {0, 1, 5}, rb \in {0, 1}, cr \in 0..7, st \in {0, 3},
        lat \in {-2, 1234567890}, ts \in {0, 7}}

\* SystemTime::now(), in seconds since the epoch.
Times == {1700000000, 1700000001}
PacketTimes == {1700000000}

FirstBytes == {0, 4, 12, 28, 65}
TextFills == {0, 65, 68}
Buffers(fills) ==
    {[i \in 1..n |-> IF i = 1 THEN first ELSE fill] :
        n \in 0..MaxBufLen, first \in FirstBytes, fill \in fills}

\* The packets serde_json builds from an inbound document: every envelope
\* scalar is a field of the document.
PacketMessages ==
    {[protocol_version |-> 241, message_counter |-> 9, message_size |-> MESSAGE_SIZE,
      message_quantity |-> mq,
      base_message |-> [id_type |-> 2, ua_type |-> 3,
                        uas_id |-> [i \in 1..n |-> 65], reserved |-> <<0, 0, 0>>],
      system_message |-> [coordinate_system |-> 1, reserved_bits |-> 0,
                          classification_region |-> 2, station_type |-> 1,
                          latitude |-> -2, longitude |-> 5, operation_count |-> 258,
                          operation_radius |-> 9, altitude_upper |-> 300,
                          altitude_lower |-> 10, ua_category |-> 1, ua_level |-> 2,
                          station_altitude |-> 77, timestamp |-> 7, reserved |-> 0],
      position_message |-> [payload |-> [i \in 1..(MESSAGE_SIZE - 1) |-> 1]],
      checksum |-> 0, reserved |-> <<0, 0, 0>>] :
        mq \in {MESSAGE_QUANTITY, 7}, n \in {1, MaxIdLen}}

\* What a call of the codec leaves alone.
connection == <<impl, wifi_devices, app_handle, rid_simulator, client,
                event_loop_handle, connection_status, client_lock, sim_lock,
                callers, tasks, next_conn, clock, frames, accepted,
                mqtt_client_set, last_processed_time>>

\* The argument a pure function of the codec is about to be applied to.
Arg(kind, value) == Some([kind |-> kind, value |-> value])

InitCodec ==
    /\ InitProcess
    /\ impl = "lib"
    /\ wifi_devices = MaxIfaces
    /\ \/ \E m \in BaseMessages : codec_arg = Arg("BaseMessage", m)
       \/ \E m \in SystemMessages, now \in Times :
             codec_arg = Arg("SystemMessage", [msg |-> m, now |-> now])
       \/ \E data \in Buffers(TextFills \cup {255}) : codec_arg = Arg("text", data)
       \/ \E data \in Buffers(TextFills) : codec_arg = Arg("bytes", data)

Pending(kinds) == codec_op = "none" /\ IsSome(codec_arg) /\ Unwrap(codec_arg).kind \in kinds

Called(op, out) ==
    /\ codec_op' = op
    /\ codec_out' = Some(out)

BaseEncodeCall ==
    /\ Pending({"BaseMessage"})
    /\ Called("BaseMessage::encode", BaseEncode(Unwrap(codec_arg).value))
    /\ UNCHANGED <<connection, counters, codec_arg>>

BaseFromBytesCall ==
    /\ Pending({"text", "bytes"})
    /\ Called("BaseMessage::from_bytes", BaseFromBytes(Unwrap(codec_arg).value))
    /\ UNCHANGED <<connection, counters, codec_arg>>

SystemEncodeCall ==
    /\ Pending({"SystemMessage"})
    /\ LET a == Unwrap(codec_arg).value
       IN Called("SystemMessage::encode", SystemEncode(a.msg, a.now))
    /\ UNCHANGED <<connection, counters, codec_arg>>

\* The timestamp of a decoded message is a u32: the buffers handed to the
\* model of SystemMessage::from_bytes keep it below 2^31.
SystemFromBytesCall ==
    /\ Pending({"bytes"})
    /\ Called("SystemMessage::from_bytes", SystemFromBytes(Unwrap(codec_arg).value))
    /\ UNCHANGED <<connection, counters, codec_arg>>

PacketFromBytesCall ==
    /\ Pending({"text", "bytes"})
    /\ Called("PacketMessage::from_bytes", PacketFromBytes(Unwrap(codec_arg).value))
    /\ UNCHANGED <<connection, counters, codec_arg>>

\* PacketMessage::encode draws the counter before it encodes anything.
PacketEncodeCall ==
    /\ \E m \in PacketMessages, now \in PacketTimes :
          /\ codec_arg' = Arg("PacketMessage", [msg |-> m, now |-> now])
          /\ Called("PacketMessage::encode", PacketEncode(m, RID_COUNTER, now))
    /\ RID_COUNTER' = RidCounterAfter(RID_COUNTER)
    /\ UNCHANGED <<connection, SEQ_COUNTER, beacon_seq>>

\* RidSimulator::build_and_send_rid on a simulator that start_simulator
\* has set up: the beacon is built with the sequence number drawn from
\* SEQ_COUNTER, then sent once; the send succeeds or fails. Any task's
\* handler may be the caller; fetch_add makes the draw atomic.
BuildAndSendRid ==
    /\ StartSimulator(wifi_devices) = "ok"
    /\ \E t \in Tasks, ok \in BOOLEAN :
          /\ codec_arg' = Arg("task", t)
          /\ Called("RidSimulator::build_and_send_rid",
                    [tag |-> IF ok THEN "ok" ELSE "err"])
    /\ beacon_seq' = Some(SEQ_COUNTER)
    /\ SEQ_COUNTER' = SeqCounterAfter(SEQ_COUNTER)
    /\ UNCHANGED <<connection, RID_COUNTER>>

\* The pure functions of the codec, each applied once to the drawn argument.
NextCodec ==
    \/ BaseEncodeCall
    \/ BaseFromBytesCall
    \/ SystemEncodeCall
    \/ SystemFromBytesCall
    \/ PacketFromBytesCall
SpecCodec == InitCodec /\ [][NextCodec]_vars

InitCounters == Init /\ impl = "lib" /\ wifi_devices = MaxIfaces

\* Successive calls of PacketMessage::encode in one process.
NextPacket == PacketEncodeCall
SpecPacket == InitCounters /\ [][NextPacket]_vars

\* Successive beacon builds in one process.
NextBeacon == BuildAndSendRid
SpecBeacon == InitCounters /\ [][NextBeacon]_vars

\* ------------------------------------------------------------------
\* From a parsed message to the frame: the synchronous run of
\* handle_publish_packet between the simulator lock and the outcome event.
\* ------------------------------------------------------------------

\* "RID-" as UTF-8 bytes.
SsidPrefix == <<82, 73, 68, 45>>

\* Mutant: the identifier is trimmed before it is prefixed.
GetSsidTrimmed(m) == SsidPrefix \o TrimEnd(TrimEndNul(m.base_message.uas_id))

\* PacketMessage::get_ssid: format!("RID-{}", self.base_message.uas_id)
GetSsid(m) == SsidPrefix \o m.base_message.uas_id

\* One vendor-specific element as build_rid_beacon fills it in.
VendorSpecificInfo(data) ==
    [element_id |-> 221, length |-> Len(data) % 256, oui |-> <<250, 11, 188>>,
     oui_type |-> 13, data |-> data]

\* Mutant: the data is cut into elements of at most 64 bytes.
VendorSpecificSegmented(rid_data) ==
    IF Len(rid_data) <= 64 THEN <<VendorSpecificInfo(rid_data)>>
    ELSE <<VendorSpecificInfo(SubSeq(rid_data, 1, 64)),
           VendorSpecificInfo(SubSeq(rid_data, 65, Len(rid_data)))>>

\* station_info.vendor_specific after the single push of build_rid_beacon.
VendorSpecific(rid_data) == <<VendorSpecificInfo(rid_data)>>

\* The Beacon build_rid_beacon hands to libwifi's encode: the sequence
\* number drawn from SEQ_COUNTER and the station information.
BuildRidBeacon(ssid, rid_data, seq) ==
    [sequence_number |-> seq,
     station_info |-> [ssid |-> Some(ssid), ssid_length |-> Some(Len(ssid)),
                       ds_parameter_set |-> Some(6),
                       vendor_specific |-> VendorSpecific(rid_data)]]

\* The identifiers of the documents handed to the handler: empty, one with a
\* lower-case letter, a space and a trailing NUL, the longest that encodes,
\* and one byte longer.
ParsedIds == {<<>>, <<97, 32, 0>>, [i \in 1..(MaxIdLen - 1) |-> 65],
              [i \in 1..MaxIdLen |-> 65]}

ParsedMessages ==
    LET m == CHOOSE p \in PacketMessages : p.message_quantity = MESSAGE_QUANTITY
    IN {[m EXCEPT !.base_message.uas_id = id] : id \in ParsedIds}

\* get_ssid, encode and build_and_send_rid for one parsed message: encode
\* draws the packet counter and may panic; build_rid_beacon draws the
\* sequence number; send_beacon makes one attempt, which succeeds or fails.
SendParsed ==
    /\ StartSimulator(wifi_devices) = "ok"
    /\ RID_COUNTER <= MaxHandled
    /\ \E m \in ParsedMessages, now \in PacketTimes, ok \in BOOLEAN :
          LET ssid == GetSsid(m)
              encoded_data == PacketEncode(m, RID_COUNTER, now)
          IN /\ codec_arg' = Arg("PacketMessage", [msg |-> m, now |-> now])
             /\ RID_COUNTER' = RidCounterAfter(RID_COUNTER)
             /\ IF encoded_data.tag = "panic"
                THEN /\ Called("handle_publish_packet", Panic)
                     /\ UNCHANGED <<SEQ_COUNTER, beacon_seq>>
                ELSE /\ Called("handle_publish_packet",
                               [tag |-> IF ok THEN "ok" ELSE "err",
                                ssid |-> ssid,
                                beacon |-> BuildRidBeacon(ssid, encoded_data.bytes,
                                                          SEQ_COUNTER)])
                     /\ beacon_seq' = Some(SEQ_COUNTER)
                     /\ SEQ_COUNTER' = SeqCounterAfter(SEQ_COUNTER)
    /\ UNCHANGED connection

\* Successive parsed messages through the synchronous run of the handler.
NextPipeline == SendParsed
SpecPipeline == InitCounters /\ [][NextPipeline]_vars

\* ====================================================================
\* Properties
\* ====================================================================

BackoffCycle == <<1, 2, 4, 8, 16, 30>>

C3_AtMostOnePollingTask == Cardinality({t \in Tasks : Alive(t)}) <= 1

\* C4: in the rate-limited handler a message that arrives less than 50 ms
\* after the previous accepted one is rejected: the rejection is logged and
\* the message is neither parsed nor transmitted; a message that arrives at
\* least 50 ms after it is accepted and goes on to be parsed.
C4_RateLimitGate ==
    [][\A t \in Tasks :
         (tasks[t].pc = "lh_gate" /\ tasks'[t].pc \notin {"lh_gate", "aborted"})
            => LET now == Unwrap(tasks[t].msg).now
                   last == Unwrap(last_processed_time)
               IN IF now - last < 50
                  THEN /\ tasks'[t].events = <<"rejected">>
                       /\ tasks'[t].pc = "h_end"
                       /\ UNCHANGED <<frames, accepted>>
                  ELSE /\ Head(tasks'[t].events) = "received"
                       /\ accepted' = Append(accepted, now)
                       /\ tasks'[t].pc \in {"lh_sim", "h_end"}]_vars

\* C4 witness: after an accepted message, one was rejected and one that came
\* a full interval after the accepted one was accepted.
C4_Witness ==
    /\ Len(accepted) = 2
    /\ accepted[2] - accepted[1] = 50
    /\ \E t \in Tasks : tasks[t].pc = "h_end" /\ tasks[t].events = <<"rejected">>

\* C5: with inbound messages handled concurrently, no two accepted messages
\* have arrival instants less than 50 ms apart, in any interleaving.
C5_NoTwoAcceptedWithinInterval ==
    \A i \in 1..Len(accepted) : \A j \in 1..Len(accepted) :
        i < j => \/ accepted[j] - accepted[i] >= 50
                 \/ accepted[i] - accepted[j] >= 50

\* C5 witness: two handlers ran concurrently and the later arrival took the
\* lock first: it was accepted, the earlier arrival was then rejected.
C5_Witness ==
    \E t \in Tasks : \E u \in Tasks :
        /\ tasks[t].pc = "h_end" /\ tasks[t].events = <<"rejected">>
        /\ tasks[u].pc \in {"lh_sim", "h_end"} /\ Head(tasks[u].events) = "received"
        /\ Unwrap(tasks[t].msg).now < Unwrap(tasks[u].msg).now

\* C6 (as stated): every message the MqttManager task transmits arrived at
\* least 50 ms after the message transmitted before it.
C6_TransmittedPassRateGate ==
    \A j \in 2..Len(frames) : frames[j] - frames[j - 1] >= 50

\* C7: when MqttManager.connect returns the subscribe failure, the flag is
\* false, no client and no task handle are stored and the polling task that
\* this connect started is no longer alive.
C7_SubscribeFailureRollsBack ==
    \A c \in Callers :
        (impl = "manager" /\ callers[c].op = "connect" /\ callers[c].pc = "ret_err")
           => /\ ~connection_status
              /\ client = None
              /\ event_loop_handle = None
              /\ ~Alive(callers[c].conn)

\* C7 witness: connect has returned the subscribe failure and its task was
\* aborted by the rollback.
C7_Witness ==
    \E c \in Callers :
        /\ impl = "manager" /\ callers[c].op = "connect" /\ callers[c].pc = "ret_err"
        /\ tasks[callers[c].conn].pc = "aborted"

\* C8: disconnect returns success whatever it found, and when it returns the
\* flag is false and neither a client nor a task handle is stored.
C8_DisconnectSucceedsAndClears ==
    \A c \in Callers :
        (callers[c].op = "disconnect" /\ callers[c].pc \in {"ret_ok", "ret_err"})
           => /\ callers[c].pc = "ret_ok"
              /\ ~connection_status
              /\ client = None
              /\ event_loop_handle = None

\* C8 witness: disconnect has returned success after aborting a task.
C8_Witness ==
    \E c \in Callers :
        /\ callers[c].op = "disconnect" /\ callers[c].pc = "ret_ok"
        /\ \E t \in Tasks : tasks[t].pc = "aborted"

\* C9 (as stated): no process is suspended at an await with a lock held.
\* Every pc names an await, so a lock that has a holder in some state is held
\* across one.
C9_NoLockHeldAcrossAwait == client_lock = None /\ sim_lock = None

\* The step in which the handling of task t's message ends in a parse
\* failure or a transmit failure.
FailingStep(t) ==
    /\ tasks[t].pc \in {"h_recv", "h_report", "lh_gate", "lh_sim"}
    /\ tasks'[t].pc = "h_end"
    /\ \/ tasks'[t].events = <<"received">>
       \/ \E i \in 1..Len(tasks'[t].events) :
             tasks'[t].events[i] \in {"parse_fail", "tx_fail"}

\* C10 (as amended): a message-scoped failure leaves the connected flag, the
\* client and the task handle as they were and the task goes on to its next
\* poll; in the rate-limited handler the failed message has passed the gate
\* before it was parsed, so its arrival instant is the new timestamp.
C10_FailureIsMessageScoped ==
    [][\A t \in Tasks :
         /\ FailingStep(t)
               => /\ UNCHANGED <<connection_status, client, event_loop_handle>>
                  /\ tasks[t].pc = "lh_gate"
                        => last_processed_time' = Some(Unwrap(tasks[t].msg).now)
         /\ (tasks[t].pc = "h_end" /\ tasks'[t].pc # "h_end")
               => tasks'[t].pc \in {"poll", "aborted"}]_vars

\* C10 witness: a message that failed to parse has been handled by the
\* rate-limited handler and left its arrival instant as the timestamp.
C10_Witness ==
    \E t \in Tasks :
        /\ impl = "lib"
        /\ tasks[t].pc = "h_end"
        /\ tasks[t].events = <<"received", "parse_fail">>
        /\ last_processed_time = Some(Unwrap(tasks[t].msg).now)

\* C10 (as stated): a message whose handling fails leaves behind nothing
\* that decides whether a later message is accepted.
C10_FailureLeavesNoTrace ==
    [][\A t \in Tasks :
         FailingStep(t) =>
            UNCHANGED <<connection_status, client, last_processed_time>>]_vars

\* C11 (as stated): in every state, the intermediate states of connect and
\* disconnect included, a client is stored only while the connected flag is
\* true.
C11_ClientOnlyWhileConnected == IsSome(client) => connection_status

\* --------------------------------------------------------------- the codec
EncodeOps == {"BaseMessage::encode", "SystemMessage::encode"}

\* C12 (as stated): BaseMessage.encode and SystemMessage.encode return, for
\* every identifier and every field assignment, 24 bytes including the tag
\* byte.
C12_EncodeReturns24Bytes ==
    codec_op \in EncodeOps =>
        /\ Unwrap(codec_out).tag = "ok"
        /\ Len(Unwrap(codec_out).bytes) = 24

\* The identifier field of an encoded BaseMessage, as from_bytes reads it.
UAS_ID_LENGTH == 20
IdField(uas_id) == [i \in 1..UAS_ID_LENGTH |-> IF i <= Len(uas_id) THEN uas_id[i] ELSE 0]

\* C13 (as stated): BaseMessage.encode completes for an identifier of any
\* length and writes it into a fixed 20-byte field after the tag and the type
\* byte: a shorter identifier is followed by zero padding, a longer one is cut
\* to its first 20 bytes, so that nothing of it follows the field.
C13_IdentifierPaddedOrTruncated ==
    codec_op = "BaseMessage::encode" =>
        LET out == Unwrap(codec_out)
            m == Unwrap(codec_arg).value
        IN /\ out.tag = "ok"
           /\ SubSeq(out.bytes, 3, 2 + UAS_ID_LENGTH) = IdField(m.uas_id)
           /\ \A i \in (3 + UAS_ID_LENGTH)..Len(out.bytes) : out.bytes[i] = 0

\* The field ranges C14 calls valid.
ValidBase(m) == m.id_type < 16 /\ m.ua_type < 16 /\ Len(m.uas_id) <= UAS_ID_LENGTH
ValidSystem(m) ==
    /\ m.classification_region \in {1, 2, 3}
    /\ m.coordinate_system < 8 /\ m.reserved_bits < 4 /\ m.station_type < 4

\* A decoded BaseMessage has the fields of m, up to the padding of the
\* identifier that from_bytes trims.
RecoversBase(d, m) ==
    /\ d.tag = "ok"
    /\ d.msg.id_type = m.id_type
    /\ d.msg.ua_type = m.ua_type
    /\ d.msg.uas_id = TrimEnd(TrimEndNul(m.uas_id))

\* A decoded SystemMessage has the fields of m; the timestamp, which encode
\* takes from the clock, is left out of the comparison.
RecoversSystem(d, m) ==
    /\ d.tag = "ok"
    /\ \A f \in (DOMAIN m) \ {"timestamp"} : d.msg[f] = m[f]

\* C14 (as stated): for every BaseMessage and every SystemMessage with fields
\* in their valid ranges, from_bytes(encode(m)) succeeds and recovers the
\* fields of m.
C14_RoundTripRecoversFields ==
    /\ codec_op = "BaseMessage::encode" /\ ValidBase(Unwrap(codec_arg).value)
          => /\ Unwrap(codec_out).tag = "ok"
             /\ RecoversBase(BaseFromBytes(Unwrap(codec_out).bytes),
                             Unwrap(codec_arg).value)
    /\ codec_op = "SystemMessage::encode" /\ ValidSystem(Unwrap(codec_arg).value.msg)
          => /\ Unwrap(codec_out).tag = "ok"
             /\ RecoversSystem(SystemFromBytes(Unwrap(codec_out).bytes),
                               Unwrap(codec_arg).value.msg)

\* The classification region SystemMessage::from_bytes decodes from a buffer.
ClassificationRegion(data) == BitAnd(Shr(data[1], 2), 7)

\* C15 (as stated): on a buffer of at least the expected length,
\* SystemMessage.from_bytes fails with the classification error when the
\* decoded classification_region is 0, 4, 5, 6 or 7 and succeeds when it is
\* 1, 2 or 3.
C15_ClassificationDecides ==
    (codec_op = "SystemMessage::from_bytes"
        /\ Len(Unwrap(codec_arg).value) >= SYSTEM_EXPECTED_LENGTH)
       => LET out == Unwrap(codec_out)
          IN IF ClassificationRegion(Unwrap(codec_arg).value) \in {1, 2, 3}
             THEN out.tag = "ok"
             ELSE out.tag = "err" /\ out.err = "UnknownMessageType"

\* The length of an encoded packet: the 4 header bytes, three sub-messages,
\* the 2 checksum bytes and the 3 reserved bytes.
PacketLength == 4 + MESSAGE_QUANTITY * MESSAGE_SIZE + 2 + 3

\* C16 (as stated): from_bytes of each kind, on a buffer shorter than the
\* kind's fixed length, returns InsufficientLength(expected, actual) with the
\* exact numbers and nothing else. For a packet the formula asks only for
\* the error and the exact actual length.
C16_ShortBufferIsInsufficientLength ==
    LET data == Unwrap(codec_arg).value
        out == Unwrap(codec_out)
    IN /\ codec_op = "BaseMessage::from_bytes" /\ Len(data) < BASE_EXPECTED_LENGTH
             => out = InsufficientLength(BASE_EXPECTED_LENGTH, Len(data))
       /\ codec_op = "SystemMessage::from_bytes" /\ Len(data) < SYSTEM_EXPECTED_LENGTH
             => out = InsufficientLength(SYSTEM_EXPECTED_LENGTH, Len(data))
       /\ codec_op = "PacketMessage::from_bytes" /\ Len(data) < PacketLength
             => /\ out.tag = "err"
                /\ out.err = "InsufficientLength"
                /\ out.actual = Len(data)

\* The bytes of an encoded packet that come before its checksum field: all
\* but the 2 checksum bytes and the 3 reserved bytes that end the packet.
Covered(bytes) == SubSeq(bytes, 1, Len(bytes) - 5)
ChecksumField(bytes) == SubSeq(bytes, Len(bytes) - 4, Len(bytes) - 3)

\* C17: in every encoded packet the 16-bit value stored little-endian right
\* after the header and sub-message bytes is the CRC16/XMODEM of exactly
\* those bytes; the checksum field and the 3 reserved bytes are not covered.
C17_ChecksumCoversHeaderAndSubMessages ==
    (codec_op = "PacketMessage::encode" /\ Unwrap(codec_out).tag = "ok")
       => LET bytes == Unwrap(codec_out).bytes
              field == ChecksumField(bytes)
          IN field[1] + 256 * field[2] = Crc16Xmodem(Covered(bytes))

\* C17 witness: a packet has been encoded whose checksum has two different
\* bytes, after the counter has wrapped.
C17_Witness ==
    /\ codec_op = "PacketMessage::encode"
    /\ Unwrap(codec_out).tag = "ok"
    /\ ChecksumField(Unwrap(codec_out).bytes)[1] # ChecksumField(Unwrap(codec_out).bytes)[2]
    /\ Unwrap(codec_out).bytes[1] = 0

\* The timestamp field of the SystemMessage in an encoded packet: the last
\* sub-message, whose final byte is the reserved one.
PacketTimestamp(bytes) == SubSeq(bytes, Len(bytes) - 9, Len(bytes) - 6)

\* C18: the counter byte PacketMessage.encode writes is the value of the
\* process-wide counter, not the stored message_counter: every encode takes
\* the next value modulo 256, so two successive encodes that return, of
\* identical input or not, write values that differ by exactly 1 modulo 256;
\* and the timestamp written for the SystemMessage is the clock value at
\* encode time, not the stored timestamp.
C18_CounterAndClockAreLive ==
    [][LET out == Unwrap(codec_out')
           arg == Unwrap(codec_arg').value
       IN codec_op' = "PacketMessage::encode" =>
             /\ RID_COUNTER' = (RID_COUNTER + 1) % 256
             /\ out.tag = "ok" =>
                   /\ out.bytes[1] = RID_COUNTER
                   /\ PacketTimestamp(out.bytes) = LeBytes(arg.now, 4)
                   /\ (codec_op = "PacketMessage::encode" /\ Unwrap(codec_out).tag = "ok")
                         => out.bytes[1] = (Unwrap(codec_out).bytes[1] + 1) % 256]_vars

\* C18 witness: after a full cycle of the counter a packet has been encoded
\* whose counter byte has wrapped to 0 and differs from the stored
\* message_counter, and whose timestamp differs from the stored one.
C18_Witness ==
    /\ codec_op = "PacketMessage::encode"
    /\ Unwrap(codec_out).tag = "ok"
    /\ Unwrap(codec_out).bytes[1] = 0
    /\ Unwrap(codec_arg).value.msg.message_counter # 0
    /\ PacketTimestamp(Unwrap(codec_out).bytes)
          # LeBytes(Unwrap(codec_arg).value.msg.system_message.timestamp, 4)

\* C19 (as stated): every packet PacketMessage.encode produces carries
\* message_quantity = 3 in its header, whatever the inbound document gave.
C19_QuantityIsThree ==
    (codec_op = "PacketMessage::encode" /\ Unwrap(codec_out).tag = "ok")
       => Unwrap(codec_out).bytes[4] = MESSAGE_QUANTITY

\* C20: the sequence numbers of consecutive beacons built in one process
\* increase by exactly 16 modulo 65536, so their low 4 bits are always 0;
\* this holds for every build, whether or not the send that follows succeeds
\* and whichever task performs the build.
C20_SequenceAdvancesBySixteen ==
    [][codec_op' = "RidSimulator::build_and_send_rid" =>
          /\ IsSome(beacon_seq')
          /\ Unwrap(beacon_seq') % 16 = 0
          /\ IsSome(beacon_seq) =>
                Unwrap(beacon_seq') = (Unwrap(beacon_seq) + 16) % 65536]_vars

\* C20 witness: the counter has wrapped at 65536: the beacon with the last
\* sequence number below it has been built, by the second task, and its
\* send failed.
C20_Witness ==
    /\ codec_op = "RidSimulator::build_and_send_rid"
    /\ beacon_seq = Some(65536 - 16)
    /\ SEQ_COUNTER = 0
    /\ Unwrap(codec_arg).value = 2
    /\ Unwrap(codec_out).tag = "err"

\* The last parsed message went through the handler's synchronous run and
\* its encode returned.
Built == codec_op = "handle_publish_packet" /\ Unwrap(codec_out).tag # "panic"

\* C21: the SSID handed to the frame builder for a message is exactly the
\* four bytes "RID-" followed by the bytes of the message's uas_id, with no
\* trimming, truncation, case change or escaping; the station information
\* of the beacon carries that string and its length in bytes.
C21_SsidIsPrefixedIdentifier ==
    Built =>
       LET uas_id == Unwrap(codec_arg).value.msg.base_message.uas_id
           out == Unwrap(codec_out)
       IN /\ out.ssid = <<82, 73, 68, 45>> \o uas_id
          /\ out.beacon.station_info.ssid = Some(out.ssid)
          /\ out.beacon.station_info.ssid_length = Some(4 + Len(uas_id))

\* C21 witness: a message whose identifier holds a lower-case letter, a
\* space and a trailing NUL has been handed to the builder with all seven
\* bytes of its SSID.
C21_Witness ==
    /\ Built
    /\ Unwrap(codec_arg).value.msg.base_message.uas_id = <<97, 32, 0>>
    /\ Unwrap(codec_out).ssid = <<82, 73, 68, 45, 97, 32, 0>>

\* C22: the beacon built for a message holds exactly one vendor-specific
\* element, of element ID 221, whose data is byte for byte what
\* PacketMessage.encode returns for that message with the counter and the
\* clock of the call; encode is called once per message (the counter
\* advances by exactly one).
C22_OneVendorElementCarriesEncoding ==
    [][(codec_op' = "handle_publish_packet" /\ Unwrap(codec_out').tag # "panic") =>
          LET arg == Unwrap(codec_arg').value
              ies == Unwrap(codec_out').beacon.station_info.vendor_specific
          IN /\ Len(ies) = 1
             /\ ies[1].element_id = 221
             /\ ies[1].data = PacketEncode(arg.msg, RID_COUNTER, arg.now).bytes
             /\ RID_COUNTER' = (RID_COUNTER + 1) % 256]_vars

\* C22 witness: the third message in a row has been built into a beacon
\* whose only vendor element carries a whole packet, longer than any one
\* sub-message, and the send succeeded.
C22_Witness ==
    /\ Built
    /\ RID_COUNTER = 4
    /\ Unwrap(codec_out).tag = "ok"
    /\ Len(Unwrap(codec_out).beacon.station_info.vendor_specific) = 1
    /\ Unwrap(codec_out).beacon.station_info.vendor_specific[1].data[1] = 3
    /\ Len(Unwrap(codec_out).beacon.station_info.vendor_specific[1].data) > 64

\* C23: when interface discovery finds no allow-listed interface, start-up
\* does not complete: no simulator is stored, the connect call that ran
\* start_simulator ends in the panic before a client or a polling task
\* exists, and no frame is ever sent; a simulator is stored, and a send is
\* attempted, only with at least one cached interface.
C23_NoInterfaceNoSimulatorNoSend ==
    /\ rid_simulator => wifi_devices >= 1
    /\ frames # <<>> => wifi_devices >= 1
    /\ wifi_devices = 0 =>
          /\ frames = <<>>
          /\ beacon_seq = None
          /\ client = None
          /\ ~connection_status
          /\ \A t \in Tasks : tasks[t].pc = "none"
          /\ \A c \in Callers :
                callers[c].op = "connect" =>
                   callers[c].pc \in {"c_app", "c_sim", "ret_panic"}

\* C23 witness: with no interface found, a connect call has run
\* start_simulator and ended in its panic, in the lib.rs iteration.
C23_Witness ==
    /\ wifi_devices = 0
    /\ impl = "lib"
    /\ \E c \in Callers : callers[c].op = "connect" /\ callers[c].pc = "ret_panic"

\* C24 (as stated): each accepted and successfully parsed message causes
\* exactly one transmit attempt: the step in which a task's handler leaves
\* the point where it holds the parsed message and waits for the simulator,
\* other than by cancellation, adds the one frame of that message.
C24_ParsedMessageAttemptedOnce ==
    [][\A t \in Tasks :
          (/\ tasks[t].pc \in {"h_sim", "lh_sim"}
           /\ tasks'[t].pc \notin {tasks[t].pc, "aborted"})
             => frames' = Append(frames, Unwrap(tasks[t].msg).now)]_vars

HandlerPcs == {"h_recv", "h_sim", "h_report", "h_end", "lh_gate", "lh_sim"}
LoopPcs == {"poll", "chk", "report", "sleep", "long_sleep"}

\* C26: a polling task handles one publish at a time and to the end: while
\* it polls, checks the flag, reports or sleeps it holds no message; the
\* message it handles is replaced by no other message; and it goes back to
\* its poll from the handler only once the handler has returned.
C26_HandlingEndsBeforeNextPoll ==
    [][\A t \in Tasks :
          /\ tasks'[t].pc \in LoopPcs => tasks'[t].msg = None
          /\ (IsSome(tasks[t].msg) /\ IsSome(tasks'[t].msg))
                => /\ Unwrap(tasks'[t].msg).now = Unwrap(tasks[t].msg).now
                   /\ Unwrap(tasks'[t].msg).kind = Unwrap(tasks[t].msg).kind
          /\ (tasks[t].pc \in HandlerPcs /\ tasks'[t].pc \in LoopPcs)
                => tasks[t].pc = "h_end" /\ tasks'[t].pc = "poll"]_vars

\* C26 witness: the only task is handling its second message, the first
\* one having been handled up to its transmission.
C26_Witness ==
    \E t \in Tasks :
        /\ \A u \in Tasks \ {t} : tasks[u].pc = "none"
        /\ tasks[t].pc \in {"h_sim", "lh_sim"}
        /\ Len(frames) = 1
        /\ frames[1] < Unwrap(tasks[t].msg).now

\* C27 (as stated): when the handler of a publish has returned, the status
\* channel has received for that message the (topic, size) event followed
\* by exactly one outcome: a parse failure, or a parse success followed by
\* one transmit success or one transmit failure.
C27_EveryMessageReportsAnOutcome ==
    \A t \in Tasks :
        tasks[t].pc = "h_end" =>
           tasks[t].events \in {<<"received", "parse_fail">>,
                                <<"received", "parse_ok", "tx_ok">>,
                                <<"received", "parse_ok", "tx_fail">>}

\* C28 (as stated): when connect_to_mqtt_server has returned an error, the
\* connection is rolled back: the stored status is false, no client is
\* kept and the polling task of that call is not running, so that
\* get_connection_status returns false.
C28_LibConnectErrorRollsBack ==
    \A c \in Callers :
        (impl = "lib" /\ callers[c].op = "connect" /\ callers[c].pc = "ret_err")
           => /\ ~connection_status
              /\ client = None
              /\ ~Alive(callers[c].conn)

\* C29 (as stated): while the connected flag is true a polling task does not
\* end on its own: a step in which a running task ends, other than by
\* cancellation, is taken with the flag false.
C29_TaskEndsOnlyWhenDisconnected ==
    [][\A t \in Tasks :
          (Alive(t) /\ tasks'[t].pc \in Ended \ {"aborted"}) => ~connection_status]_vars

\* C29, the part about poll errors: under the fairness of the scheduler and
\* of the sleeps (SpecBackoffFair), a task that has met a poll error gets
\* back to its poll, unless it exits on the cleared flag or is cancelled.
C29_PollErrorLeadsToPoll ==
    \A t \in Tasks :
        (tasks[t].pc \in {"chk", "report", "sleep", "long_sleep"})
           ~> (tasks[t].pc \in {"poll", "done", "aborted"})

\* C30: the step of disconnect that takes the registered handle leaves the
\* task of that handle ended and no handle stored; and a task that has
\* ended stays as it ended: it starts no poll and no handling, and the
\* message it was cut off from is taken no further.  So when disconnect
\* returns, and ever after, the task registered when it ran is stopped.
C30_RegisteredTaskStoppedForGood ==
    [][/\ \A c \in Callers :
             (callers[c].pc = "d_abort" /\ callers'[c].pc # "d_abort")
                => /\ event_loop_handle' = None
                   /\ IsSome(event_loop_handle)
                         => tasks'[Unwrap(event_loop_handle)].pc \in Ended
       /\ \A t \in Tasks : tasks[t].pc \in Ended => tasks'[t] = tasks[t]]_vars

\* C30 witness: disconnect has returned; the only task ever started was
\* cancelled while it held a parsed message that no frame was sent for.
C30_Witness ==
    \E c \in Callers, t \in Tasks :
        /\ callers[c].op = "disconnect" /\ callers[c].pc = "ret_ok"
        /\ \A u \in Tasks \ {t} : tasks[u].pc = "none"
        /\ tasks[t].pc = "aborted"
        /\ IsSome(tasks[t].msg)
        /\ Unwrap(tasks[t].msg).kind = "valid"
        /\ frames = <<>>

\* C31 (as stated): once a connect call and a disconnect call that ran
\* interleaved on the manager have both returned (the only connect that
\* ever created a client): if the connected flag is false, no polling task
\* is alive and no client is stored; and every polling task that is alive
\* is the one whose handle is stored.
C31_ConnectDisconnectLeaveNoOrphan ==
    (/\ impl = "manager"
     /\ next_conn = 2
     /\ \A c \in Callers : callers[c].pc \in {"ret_ok", "ret_err"}
     /\ \E c \in Callers : callers[c].op = "connect"
     /\ \E c \in Callers : callers[c].op = "disconnect")
       => /\ ~connection_status => (client = None /\ \A t \in Tasks : ~Alive(t))
          /\ \A t \in Tasks : Alive(t) => event_loop_handle = Some(t)

\* C32 (as stated): from_bytes of each kind, on a buffer that passes the
\* kind's own length check (Base: 24, System: 24, Packet: 16), returns a
\* message or a MessageError: it reads no byte at or beyond the buffer's
\* length (such a read is a panic).
C32_FromBytesStaysInBounds ==
    LET data == Unwrap(codec_arg).value
    IN (\/ codec_op = "BaseMessage::from_bytes" /\ Len(data) >= BASE_EXPECTED_LENGTH
        \/ codec_op = "SystemMessage::from_bytes" /\ Len(data) >= SYSTEM_EXPECTED_LENGTH
        \/ codec_op = "PacketMessage::from_bytes" /\ Len(data) >= 16)
          => Unwrap(codec_out).tag \in {"ok", "err"}

\* C33: a message rejected by the rate-limit gate leaves the last-accepted
\* timestamp as it was; once initialised the timestamp changes only when a
\* message is accepted, to that message's arrival instant, which is later
\* than the value it replaces; so it equals the arrival instant of the most
\* recently accepted message; and the first message to reach the gate is
\* accepted.
C33_TimestampFollowsAccepted ==
    [][/\ \A t \in Tasks :
             (tasks[t].pc = "lh_gate" /\ tasks'[t].pc \notin {"lh_gate", "aborted"})
                => /\ tasks'[t].events = <<"rejected">>
                         => UNCHANGED <<last_processed_time, accepted>>
                   /\ accepted = <<>> => accepted' = <<Unwrap(tasks[t].msg).now>>
       /\ (IsSome(last_processed_time) /\ last_processed_time' # last_processed_time)
             => /\ IsSome(last_processed_time')
                /\ Unwrap(last_processed_time') > Unwrap(last_processed_time)
                /\ accepted' = Append(accepted, Unwrap(last_processed_time'))
       /\ accepted' # <<>> => last_processed_time' = Some(accepted'[Len(accepted')])]_vars

\* C33 witness: the first message was accepted and the next arrival, within
\* the interval of it, has been rejected: the timestamp is still the arrival
\* instant of the accepted one, no longer its initial value.
C33_Witness ==
    /\ Len(accepted) = 1
    /\ last_processed_time = Some(accepted[1])
    /\ \E t \in Tasks :
          /\ tasks[t].pc = "h_end"
          /\ tasks[t].events = <<"rejected">>
          /\ Unwrap(tasks[t].msg).now > accepted[1]
          /\ Unwrap(tasks[t].msg).now - accepted[1] < RATE_LIMIT_INTERVAL

====
